---- MODULE Spec2Model ----
(***************************************************************************)
(* Model of the analytics "historical" API handler of sigle                *)
(* (sigle/src/pages/api/analytics/historical.api.ts).                      *)
(*                                                                         *)
(* Strings that the code parses or builds (dates, provider numbers) are    *)
(* sequences of one-character strings, so that parse, format and parseInt  *)
(* are computed character by character.  A Date is a record                *)
(* [valid, t] where t counts the hours since 1970-01-01T00:00 local time.  *)
(* A JavaScript number is a record [nan, v]: an integer v, or NaN.         *)
(***************************************************************************)
EXTENDS Integers, Sequences, FiniteSets, TLC

VARIABLES
  query,              \* req.query: [dateFrom, dateGrouping]
  pc,                 \* position of the async handler
  parsedDateFrom,     \* let parsedDateFrom (a Date)
  dateTo,             \* const dateTo (hours since epoch)
  historicalResponse, \* const historicalResponse: the series of buckets
  profile,            \* whether getBucketUrl returned a profile
  bucketUrl,          \* whether getBucketUrl returned a bucket url
  publicStoriesFile,  \* story ids returned by getPublicStories
  storiesPath,        \* the list of paths handed to the provider client
  fetch,              \* per path: state of the aggregatePath promise
  datesValues,        \* date-keyed totals, in key insertion order
  calls,              \* every res.status(s).json(b) call, in order
  captured,           \* every Sentry.captureMessage call, in order
  outbound            \* every call to a collaborator, in order

vars == <<query, pc, parsedDateFrom, dateTo, historicalResponse, profile,
          bucketUrl, publicStoriesFile, storiesPath, fetch, datesValues, calls,
          captured, outbound>>

----------------------------------------------------------------------------
(* Bounds *)

\* dateTo lies at most MaxDays days after the day of dateFrom
MaxDays == 3
\* getPublicStories returns at most MaxStories stories
MaxStories == 2

----------------------------------------------------------------------------
(* Characters and numbers *)

Digits == {"0", "1", "2", "3", "4", "5", "6", "7", "8", "9"}

DigitVal(c) ==
  CASE c = "0" -> 0 [] c = "1" -> 1 [] c = "2" -> 2 [] c = "3" -> 3
    [] c = "4" -> 4 [] c = "5" -> 5 [] c = "6" -> 6 [] c = "7" -> 7
    [] c = "8" -> 8 [] c = "9" -> 9

DigitChar(n) ==
  CASE n = 0 -> "0" [] n = 1 -> "1" [] n = 2 -> "2" [] n = 3 -> "3"
    [] n = 4 -> "4" [] n = 5 -> "5" [] n = 6 -> "6" [] n = 7 -> "7"
    [] n = 8 -> "8" [] n = 9 -> "9"

Min(a, b) == IF a < b THEN a ELSE b

\* length of the longest run of digits at the start of s, at most n long
DigitRun(s, n) ==
  LET m == Min(n, Len(s))
      ok == {i \in 0..m : \A j \in 1..i : s[j] \in Digits}
  IN  CHOOSE i \in ok : \A k \in ok : k <= i

RECURSIVE NumVal(_)
\* the decimal value of a sequence of digits
NumVal(s) ==
  IF s = << >> THEN 0
  ELSE 10 * NumVal(SubSeq(s, 1, Len(s) - 1)) + DigitVal(s[Len(s)])

Drop(s, k) == SubSeq(s, k + 1, Len(s))

RECURSIVE Pad(_, _)
\* n in decimal, left-padded with zeros to at least width characters
Pad(n, width) ==
  IF n < 10 /\ width <= 1 THEN <<DigitChar(n)>>
  ELSE Append(Pad(n \div 10, width - 1), DigitChar(n % 10))

\* the white space of JavaScript (what parseInt skips and what the \s of a
\* regular expression matches): blank, tab, line feed, form feed, return,
\* and the characters written here by their code point: vertical tab,
\* no-break space, the Unicode space separators, the line and paragraph
\* separators and the byte order mark.  Such a character is one element of a
\* text, like any other character.
WhiteSpace ==
  {" ", "\t", "\n", "\f", "\r",
   "U+000B", "U+00A0", "U+1680", "U+2000", "U+2001", "U+2002", "U+2003",
   "U+2004", "U+2005", "U+2006", "U+2007", "U+2008", "U+2009", "U+200A",
   "U+2028", "U+2029", "U+202F", "U+205F", "U+3000", "U+FEFF"}

\* the JavaScript number of an integer
Number(n) == [nan |-> FALSE, v |-> n]

\* the value JavaScript calls NaN
NaN == [nan |-> TRUE, v |-> 0]

\* parseInt(string, 10): leading white space is skipped, one sign is read,
\* then the longest run of digits; no digit at all gives NaN and whatever
\* follows the digits is ignored
RECURSIVE parseInt(_)
parseInt(s) ==
  IF s # << >> /\ s[1] \in WhiteSpace THEN parseInt(Tail(s))
  ELSE LET signed == s # << >> /\ s[1] \in {"+", "-"}
           body   == IF signed THEN Tail(s) ELSE s
           k      == DigitRun(body, Len(body))
           value  == NumVal(SubSeq(body, 1, k))
       IN  IF k = 0 THEN NaN
           ELSE IF signed /\ s[1] = "-" THEN Number(0 - value)
           ELSE Number(value)

\* JavaScript addition of two numbers
Plus(a, b) == IF a.nan \/ b.nan THEN NaN ELSE Number(a.v + b.v)

----------------------------------------------------------------------------
(* Calendar: the Date arithmetic behind parse, format and addDays *)

IsLeap(y) == (y % 4 = 0 /\ y % 100 # 0) \/ y % 400 = 0

DaysInMonth(y, m) ==
  IF m = 2 THEN (IF IsLeap(y) THEN 29 ELSE 28)
  ELSE IF m \in {4, 6, 9, 11} THEN 30 ELSE 31

\* number of days from 1970-01-01 to y-m-d
DaysFromCivil(y, m, d) ==
  LET yy  == IF m <= 2 THEN y - 1 ELSE y
      era == yy \div 400
      yoe == yy - era * 400
      mp  == IF m > 2 THEN m - 3 ELSE m + 9
      doy == (153 * mp + 2) \div 5 + d - 1
      doe == yoe * 365 + yoe \div 4 - yoe \div 100 + doy
  IN  era * 146097 + doe - 719468

\* the calendar date [y, m, d] of day number z
CivilFromDays(z) ==
  LET zz  == z + 719468
      era == zz \div 146097
      doe == zz - era * 146097
      yoe == (doe - doe \div 1460 + doe \div 36524 - doe \div 146096) \div 365
      doy == doe - (365 * yoe + yoe \div 4 - yoe \div 100)
      mp  == (5 * doy + 2) \div 153
      d   == doy - (153 * mp + 2) \div 5 + 1
      m   == IF mp < 10 THEN mp + 3 ELSE mp - 9
      y   == yoe + era * 400
  IN  [y |-> IF m <= 2 THEN y + 1 ELSE y, m |-> m, d |-> d]

InvalidDate == [valid |-> FALSE, t |-> 0]

\* parse(dateString, 'yyyy-MM-dd', new Date()): up to four digits of year,
\* "-", up to two digits of month, "-", up to two digits of day and nothing
\* but white space after them; the month and the day must exist.  The result
\* is midnight.
parse(s) ==
  LET ky == DigitRun(s, 4)
      s1 == Drop(s, ky)
      km == IF s1 = << >> THEN 0 ELSE DigitRun(Tail(s1), 2)
      s2 == IF s1 = << >> THEN << >> ELSE Drop(Tail(s1), km)
      kd == IF s2 = << >> THEN 0 ELSE DigitRun(Tail(s2), 2)
      s3 == IF s2 = << >> THEN << >> ELSE Drop(Tail(s2), kd)
      y  == NumVal(SubSeq(s, 1, ky))
      m  == NumVal(SubSeq(Tail(s1), 1, km))
      d  == NumVal(SubSeq(Tail(s2), 1, kd))
  IN  IF ky = 0 \/ s1 = << >> \/ s1[1] # "-" THEN InvalidDate
      ELSE IF km = 0 \/ s2 = << >> \/ s2[1] # "-" THEN InvalidDate
      ELSE IF kd = 0 \/ (\E i \in 1..Len(s3) : s3[i] \notin WhiteSpace)
           THEN InvalidDate
      ELSE IF y < 1 \/ m < 1 \/ m > 12 THEN InvalidDate
      ELSE IF d < 1 \/ d > DaysInMonth(y, m) THEN InvalidDate
      ELSE [valid |-> TRUE, t |-> DaysFromCivil(y, m, d) * 24]

isValid(date) == date.valid

\* isBefore that also holds of equal times
isBefore_Inclusive(date, t) == date.t <= t

isBefore(date, t) == date.t < t

addDays(date, amount) == [date EXCEPT !.t = @ + amount * 24]

\* format(date, 'yyyy-MM-dd')
format(date) ==
  LET c == CivilFromDays(date.t \div 24)
  IN  Pad(c.y, 4) \o <<"-">> \o Pad(c.m, 2) \o <<"-">> \o Pad(c.d, 2)

----------------------------------------------------------------------------
(* Values of the request and of the collaborators *)

username == "sigleapp.id.blockstack"

Date_2023_12_30 == <<"2", "0", "2", "3", "-", "1", "2", "-", "3", "0">>
Date_2023_12_31 == <<"2", "0", "2", "3", "-", "1", "2", "-", "3", "1">>
Date_2024_01_01 == <<"2", "0", "2", "4", "-", "0", "1", "-", "0", "1">>
Date_2024_02_27 == <<"2", "0", "2", "4", "-", "0", "2", "-", "2", "7">>
Date_2023_02_27 == <<"2", "0", "2", "3", "-", "0", "2", "-", "2", "7">>
Date_1900_02_27 == <<"1", "9", "0", "0", "-", "0", "2", "-", "2", "7">>
Date_2000_02_27 == <<"2", "0", "0", "0", "-", "0", "2", "-", "2", "7">>
Date_2024_04_29 == <<"2", "0", "2", "4", "-", "0", "4", "-", "2", "9">>
Date_2024_6_29  == <<"2", "0", "2", "4", "-", "6", "-", "2", "9">>
Date_2024_02_30 == <<"2", "0", "2", "4", "-", "0", "2", "-", "3", "0">>
Month_2023_12   == <<"2", "0", "2", "3", "-", "1", "2">>
NotADate        == <<"n", "o", "t", "-", "a", "-", "d", "a", "t", "e">>
\* dates followed by white space: a blank and a vertical tab, a line feed,
\* a no-break space and a byte order mark
Date_2023_12_31_Blank == Date_2023_12_31 \o <<" ", "U+000B">>
Date_2024_02_27_Feed  == Date_2024_02_27 \o <<"\n">>
Date_2024_04_29_Mark  == Date_2024_04_29 \o <<"U+00A0", "U+FEFF">>
Year_2023       == <<"2", "0", "2", "3">>
Constructor     == <<"c", "o", "n", "s", "t", "r", "u", "c", "t", "o", "r">>

\* the values of dateFrom tried on the whole handler; << >> is a missing
\* (or empty) parameter
HandlerDateFroms ==
  {<< >>, NotADate, Date_2024_02_30, Date_2023_12_31, Date_2023_12_31_Blank}

\* the values of dateFrom tried on the scaffold loop
ScaffoldDateFroms ==
  {Date_2023_12_30, Date_2024_02_27, Date_2023_02_27, Date_1900_02_27,
   Date_2000_02_27, Date_2024_04_29, Date_2024_6_29, Date_2024_02_27_Feed,
   Date_2024_04_29_Mark}

\* the values of dateGrouping; "" is a missing (or empty) parameter
DateGroupings == {"", "day", "month", "week"}

\* the values of new Date() at line 58, relative to the midnight of dateFrom
NowOffsets == {k * 24 + h : k \in 0..MaxDays, h \in {-11, 0}}

StoryIds == {"story1", "story2", "story3"}

\* what getPublicStories can return: lists of distinct stories
StoryLists ==
  {s \in UNION {[1..n -> StoryIds] : n \in 0..MaxStories} :
     \A i, j \in 1..Len(s) : i # j => s[i] # s[j]}

Result(date, visits, pageviews) ==
  [date |-> date, visits |-> visits, pageviews |-> pageviews]

\* what the provider can return for one path
ProviderReplies ==
  { << >>,
    << Result(Date_2024_01_01, <<"3">>, <<"5">>) >>,
    << Result(Date_2024_01_01, <<"2">>, <<"1">>),
       Result(Constructor, <<"7">>, <<"7">>),
       Result(Date_2023_12_31, <<"4">>, <<"x">>) >>,
    << Result(Month_2023_12, <<"6">>, <<"2">>),
       Result(Date_2024_01_01, <<"+", "1", "0">>, <<"\n", "U+000B", "3">>),
       Result(Date_2023_12_30, <<"-", "1">>, <<"\t", "U+00A0", "-", "1">>),
       Result(Year_2023, <<"1">>, <<"1">>) >> }

Response(status, error, errorId, body) ==
  [status |-> status, error |-> error, errorId |-> errorId, body |-> body]

Outbound(op, path) ==
  [op |-> op, path |-> path, dateFrom |-> query.dateFrom,
   dateGrouping |-> query.dateGrouping]

----------------------------------------------------------------------------
(* The handler up to its first await *)

Init ==
  /\ query \in [dateFrom : HandlerDateFroms, dateGrouping : DateGroupings]
  /\ pc = "start"
  /\ parsedDateFrom = InvalidDate
  /\ dateTo = 0
  /\ historicalResponse = << >>
  /\ profile = FALSE
  /\ bucketUrl = FALSE
  /\ publicStoriesFile = << >>
  /\ storiesPath = << >>
  /\ fetch = << >>
  /\ datesValues = << >>
  /\ calls = << >>
  /\ captured = << >>
  /\ outbound = << >>

\* ValidationError with the dateGrouping rules tested before the dateFrom rules
ValidationError_GroupingFirst(q) ==
  IF q.dateGrouping = "" THEN "dateGrouping is required"
  ELSE IF q.dateGrouping # "day" /\ q.dateGrouping # "month"
       THEN "dateGrouping must be day or month"
  ELSE IF q.dateFrom = << >> THEN "dateFrom is required"
  ELSE IF ~isValid(parse(q.dateFrom)) THEN "dateFrom is invalid"
  ELSE ""

\* the message of the first validation rule that the query breaks, or ""
ValidationError(q) ==
  IF q.dateFrom = << >> THEN "dateFrom is required"
  ELSE IF ~isValid(parse(q.dateFrom)) THEN "dateFrom is invalid"
  ELSE IF q.dateGrouping = "" THEN "dateGrouping is required"
  ELSE IF q.dateGrouping # "day" /\ q.dateGrouping # "month"
       THEN "dateGrouping must be day or month"
  ELSE ""

\* lines 32-60: validation, then dateTo = new Date() and the empty series
Validate ==
  /\ pc = "start"
  /\ IF ValidationError(query) # ""
     THEN /\ calls' = Append(calls, Response(400, ValidationError(query), 0, << >>))
          /\ pc' = "done"
          /\ UNCHANGED <<parsedDateFrom, dateTo>>
     ELSE /\ parsedDateFrom' = parse(query.dateFrom)
          /\ \E off \in NowOffsets : dateTo' = parse(query.dateFrom).t + off
          /\ pc' = "scaffold"
          /\ UNCHANGED calls
  /\ historicalResponse' = << >>
  /\ UNCHANGED <<query, profile, bucketUrl, publicStoriesFile, storiesPath,
                 fetch, datesValues, captured, outbound>>

\* lines 63-71: one iteration of the while loop
ScaffoldStep ==
  /\ pc = "scaffold"
  /\ isBefore(parsedDateFrom, dateTo)
  /\ historicalResponse' =
       Append(historicalResponse,
              Result(format(parsedDateFrom), Number(0), Number(0)))
  /\ parsedDateFrom' = addDays(parsedDateFrom, 1)
  /\ UNCHANGED <<query, pc, dateTo, profile, bucketUrl, publicStoriesFile,
                 storiesPath, fetch, datesValues, calls, captured, outbound>>

\* lines 63 and 73: the loop ends and getBucketUrl is called
ScaffoldExit ==
  /\ pc = "scaffold"
  /\ ~isBefore(parsedDateFrom, dateTo)
  /\ outbound' = Append(outbound, Outbound("getBucketUrl", << >>))
  /\ pc' = "awaitBucketUrl"
  /\ UNCHANGED <<query, parsedDateFrom, dateTo, historicalResponse, profile,
                 bucketUrl, publicStoriesFile, storiesPath, fetch, datesValues,
                 calls, captured>>

----------------------------------------------------------------------------
(* The handler after getBucketUrl *)

\* the test of line 74 with "and" in the place of "or"
NoProfileOrBucketUrl_Both(p, b) == ~p /\ ~b

\* line 74: the test on what getBucketUrl returned
NoProfileOrBucketUrl(p, b) == ~p \/ ~b

\* lines 73-82: getBucketUrl answers; without a profile or a bucket url the
\* handler reports and answers 500, otherwise it calls getPublicStories
BucketUrlResolved(p, b) ==
  /\ pc = "awaitBucketUrl"
  /\ profile' = p
  /\ bucketUrl' = b
  /\ IF NoProfileOrBucketUrl(p, b)
     THEN /\ captured' = Append(captured, [kind |-> "NoProfile", date |-> << >>])
          /\ calls' = Append(calls, Response(500, "Internal server error",
                                             Len(captured) + 1, << >>))
          /\ pc' = "done"
          /\ UNCHANGED outbound
     ELSE /\ outbound' = Append(outbound, Outbound("getPublicStories", << >>))
          /\ pc' = "awaitStories"
          /\ UNCHANGED <<captured, calls>>
  /\ UNCHANGED <<query, parsedDateFrom, dateTo, historicalResponse,
                 publicStoriesFile, storiesPath, fetch, datesValues>>

\* line 73: the promise of getBucketUrl rejects; the await is in no try
\* block, so the handler rejects: nothing is reported, nothing is answered
BucketUrlRejected ==
  /\ pc = "awaitBucketUrl"
  /\ pc' = "rejected"
  /\ UNCHANGED <<query, parsedDateFrom, dateTo, historicalResponse, profile,
                 bucketUrl, publicStoriesFile, storiesPath, fetch, datesValues,
                 calls, captured, outbound>>

\* lines 83-87: one path for each story, then the root path
BuildStoriesPath(stories) ==
  Append([i \in 1..Len(stories) |-> <<username, stories[i]>>], <<username>>)

Pending == [state |-> "pending", result |-> << >>]

\* lines 90-97: storiesPath.map issues one aggregatePath for each path
IssueFetches(paths) == [i \in 1..Len(paths) |-> Pending]

\* lines 82-98: getPublicStories answers, the path list is built and every
\* fetch is issued before the handler awaits Promise.all
StoriesListed(stories) ==
  /\ pc = "awaitStories"
  /\ publicStoriesFile' = stories
  /\ storiesPath' = BuildStoriesPath(stories)
  /\ fetch' = IssueFetches(BuildStoriesPath(stories))
  /\ outbound' = outbound \o
       [i \in 1..Len(BuildStoriesPath(stories)) |->
          Outbound("aggregatePath", BuildStoriesPath(stories)[i])]
  /\ pc' = "awaitFetch"
  /\ UNCHANGED <<query, parsedDateFrom, dateTo, historicalResponse, profile,
                 bucketUrl, datesValues, calls, captured>>

\* line 82: the promise of getPublicStories rejects and the handler rejects
\* with it: no path is built and no fetch is issued
StoriesRejected ==
  /\ pc = "awaitStories"
  /\ pc' = "rejected"
  /\ UNCHANGED <<query, parsedDateFrom, dateTo, historicalResponse, profile,
                 bucketUrl, publicStoriesFile, storiesPath, fetch, datesValues,
                 calls, captured, outbound>>

\* the position of the entry of date in a list of dated records, 0 if none
\* (findIndex, counted from 1)
findIndex(list, date) ==
  LET hits == {i \in 1..Len(list) : list[i].date = date}
  IN  IF hits = {} THEN 0 ELSE CHOOSE i \in hits : \A j \in hits : i <= j

\* the names that every object inherits from Object.prototype
ObjectPrototypeMembers ==
  { Constructor,
    <<"t", "o", "S", "t", "r", "i", "n", "g">>,
    <<"v", "a", "l", "u", "e", "O", "f">>,
    <<"_", "_", "p", "r", "o", "t", "o", "_", "_">>,
    <<"t", "o", "L", "o", "c", "a", "l", "e", "S", "t", "r", "i", "n", "g">>,
    <<"h", "a", "s", "O", "w", "n", "P", "r", "o", "p", "e", "r", "t", "y">>,
    <<"i", "s", "P", "r", "o", "t", "o", "t", "y", "p", "e", "O", "f">>,
    <<"p", "r", "o", "p", "e", "r", "t", "y", "I", "s", "E", "n", "u", "m", "e",
      "r", "a", "b", "l", "e">>,
    <<"_", "_", "d", "e", "f", "i", "n", "e", "G", "e", "t", "t", "e", "r", "_", "_">>,
    <<"_", "_", "d", "e", "f", "i", "n", "e", "S", "e", "t", "t", "e", "r", "_", "_">>,
    <<"_", "_", "l", "o", "o", "k", "u", "p", "G", "e", "t", "t", "e", "r", "_", "_">>,
    <<"_", "_", "l", "o", "o", "k", "u", "p", "S", "e", "t", "t", "e", "r", "_", "_">> }

\* MergeResult that assigns the parsed values where the code adds them
MergeResult_Overwrite(dv, result) ==
  IF result.date \in ObjectPrototypeMembers THEN dv
  ELSE
  LET dv1 == IF findIndex(dv, result.date) = 0
             THEN Append(dv, Result(result.date, Number(0), Number(0))) ELSE dv
      k   == findIndex(dv1, result.date)
  IN  [dv1 EXCEPT ![k] =
         [@ EXCEPT !.visits = parseInt(result.visits),
                   !.pageviews = parseInt(result.pageviews)]]

\* lines 106-110: one provider result is added to the totals of its date.
\* For a date named like a member of Object.prototype the test of line 106
\* finds the inherited member, lines 109-110 write on that member and
\* datesValues gets no key.
MergeResult(dv, result) ==
  IF result.date \in ObjectPrototypeMembers THEN dv
  ELSE
  LET dv1 == IF findIndex(dv, result.date) = 0
             THEN Append(dv, Result(result.date, Number(0), Number(0))) ELSE dv
      k   == findIndex(dv1, result.date)
  IN  [dv1 EXCEPT ![k] =
         [@ EXCEPT !.visits = Plus(@, parseInt(result.visits)),
                   !.pageviews = Plus(@, parseInt(result.pageviews))]]

RECURSIVE MergeResults(_, _)
\* lines 105-111: the results of one path
MergeResults(dv, aggregationResult) ==
  IF aggregationResult = << >> THEN dv
  ELSE MergeResults(MergeResult(dv, Head(aggregationResult)),
                    Tail(aggregationResult))

\* MergeAll that merges the results of the first path only
MergeAll_FirstPathOnly(dv, fathomAggregationResult) ==
  IF fathomAggregationResult = << >> THEN dv
  ELSE MergeResults(dv, Head(fathomAggregationResult))

RECURSIVE MergeAll(_, _)
\* lines 104-112: the results of every path, in the order of the path list
MergeAll(dv, fathomAggregationResult) ==
  IF fathomAggregationResult = << >> THEN dv
  ELSE MergeAll(MergeResults(dv, Head(fathomAggregationResult)),
                Tail(fathomAggregationResult))

\* WriteBucket that pushes a new bucket where the code updates one
WriteBucket_Append(series, index, dateValues) == Append(series, dateValues)

\* lines 126-127: the totals of a date overwrite the bucket at index
WriteBucket(series, index, dateValues) ==
  [series EXCEPT ![index] = [@ EXCEPT !.visits = dateValues.visits,
                                      !.pageviews = dateValues.pageviews]]

\* res.status(s).json(b) on a response object that has answered already:
\* a strict response object throws, a lenient one records the call
Send(st, strict, response) ==
  IF st.calls # << >> /\ strict
  THEN [st EXCEPT !.thrown = TRUE]
  ELSE [st EXCEPT !.calls = Append(@, response)]

RECURSIVE WriteBack(_, _, _, _)
\* lines 114-128: forEach over the entries dv from entry k on; the return
\* at line 124 ends one callback, and the loop goes on with the next key
WriteBack(st, dv, k, strict) ==
  IF k > Len(dv) \/ st.thrown THEN st
  ELSE LET index == findIndex(st.series, dv[k].date)
       IN  IF index = 0
           THEN LET st1 == [st EXCEPT !.captured =
                              Append(@, [kind |-> "NoIndex", date |-> dv[k].date])]
                IN  WriteBack(Send(st1, strict,
                                   Response(500, "Internal server error",
                                            Len(st1.captured), << >>)),
                              dv, k + 1, strict)
           ELSE WriteBack([st EXCEPT !.series = WriteBucket(@, index, dv[k])],
                          dv, k + 1, strict)

\* the largest array index, 2^32 - 2
MaxArrayIndex == <<"4", "2", "9", "4", "9", "6", "7", "2", "9", "4">>

\* the order of two decimal numerals without leading zeros
NumeralLess(a, b) ==
  \/ Len(a) < Len(b)
  \/ /\ Len(a) = Len(b)
     /\ \E i \in 1..Len(a) :
          /\ \A j \in 1..(i - 1) : a[j] = b[j]
          /\ DigitVal(a[i]) < DigitVal(b[i])

\* a key that is the canonical numeral of an array index
IsArrayIndex(key) ==
  /\ key # << >>
  /\ \A i \in 1..Len(key) : key[i] \in Digits
  /\ Len(key) = 1 \/ key[1] # "0"
  /\ ~NumeralLess(MaxArrayIndex, key)

\* line 114, Object.keys(datesValues): the keys that are array indices in
\* ascending numeric order, then the other keys in insertion order
ObjectKeys(dv) ==
  LET idx   == {i \in 1..Len(dv) : IsArrayIndex(dv[i].date)}
      rank(i) == Cardinality({j \in idx : NumeralLess(dv[j].date, dv[i].date)})
      first == [p \in 1..Cardinality(idx) |->
                  dv[CHOOSE i \in idx : rank(i) = p - 1]]
  IN  first \o SelectSeq(dv, LAMBDA e : ~IsArrayIndex(e.date))

\* lines 114-130: the write-back loop, then res.status(200).json(series)
Respond(st, dv, strict) ==
  LET st1 == WriteBack(st, ObjectKeys(dv), 1, strict)
  IN  IF st1.thrown THEN st1
      ELSE Send(st1, strict, Response(200, "", 0, st1.series))

\* a join that is fulfilled as soon as one promise is fulfilled
AllFulfilled_Any(f) == \E i \in 1..Len(f) : f[i].state = "fulfilled"

\* Promise.all at line 90: fulfilled once every promise is fulfilled
AllFulfilled(f) == \A i \in 1..Len(f) : f[i].state = "fulfilled"

\* lines 90-131: a fetch is fulfilled; when it is the last one the handler
\* resumes, merges, writes back and answers
FetchFulfilled(i, reply) ==
  /\ i \in 1..Len(fetch)
  /\ fetch[i].state = "pending"
  /\ \E settled \in {[fetch EXCEPT ![i] = [state |-> "fulfilled", result |-> reply]]} :
       /\ fetch' = settled
       /\ IF pc = "awaitFetch" /\ AllFulfilled(settled)
          THEN \E dv \in {MergeAll(<< >>, [j \in 1..Len(settled) |-> settled[j].result])} :
               \E strict \in BOOLEAN :
               \E st \in {Respond([series |-> historicalResponse, calls |-> calls,
                                   captured |-> captured, thrown |-> FALSE],
                                  dv, strict)} :
                 /\ datesValues' = dv
                 /\ historicalResponse' = st.series
                 /\ calls' = st.calls
                 /\ captured' = st.captured
                 /\ pc' = IF st.thrown THEN "rejected" ELSE "done"
          ELSE UNCHANGED <<pc, datesValues, historicalResponse, calls, captured>>
  /\ UNCHANGED <<query, parsedDateFrom, dateTo, profile, bucketUrl,
                 publicStoriesFile, storiesPath, outbound>>

\* AfterRejection of a handler that swallows the rejection and keeps waiting
AfterRejection_Ignored(p) == p

\* line 90: the awaiting handler rejects when Promise.all rejects; a handler
\* that has finished is not affected
AfterRejection(p) == IF p = "awaitFetch" THEN "rejected" ELSE p

\* line 90: a fetch is rejected; Promise.all rejects at the first rejection
\* and the awaiting handler rejects with it
FetchRejected(i) ==
  /\ i \in 1..Len(fetch)
  /\ fetch[i].state = "pending"
  /\ fetch' = [fetch EXCEPT ![i] = [state |-> "rejected", result |-> << >>]]
  /\ pc' = AfterRejection(pc)
  /\ UNCHANGED <<query, parsedDateFrom, dateTo, historicalResponse, profile,
                 bucketUrl, publicStoriesFile, storiesPath, datesValues, calls,
                 captured, outbound>>

Next ==
  \/ Validate
  \/ ScaffoldStep
  \/ ScaffoldExit
  \/ \E p, b \in BOOLEAN : BucketUrlResolved(p, b)
  \/ BucketUrlRejected
  \/ \E stories \in StoryLists : StoriesListed(stories)
  \/ StoriesRejected
  \/ \E i \in 1..(MaxStories + 1), reply \in ProviderReplies :
       FetchFulfilled(i, reply)
  \/ \E i \in 1..(MaxStories + 1) : FetchRejected(i)

Spec == Init /\ [][Next]_vars

\* the scaffold on its own, over more start dates
InitScaffold ==
  /\ query \in [dateFrom : ScaffoldDateFroms, dateGrouping : {"day", "month"}]
  /\ pc = "start"
  /\ parsedDateFrom = InvalidDate
  /\ dateTo = 0
  /\ historicalResponse = << >>
  /\ profile = FALSE
  /\ bucketUrl = FALSE
  /\ publicStoriesFile = << >>
  /\ storiesPath = << >>
  /\ fetch = << >>
  /\ datesValues = << >>
  /\ calls = << >>
  /\ captured = << >>
  /\ outbound = << >>

NextScaffold == Validate \/ ScaffoldStep \/ ScaffoldExit

\* the loop is synchronous code: it runs until it ends
SpecScaffold ==
  /\ InitScaffold /\ [][NextScaffold]_vars
  /\ WF_vars(ScaffoldStep) /\ WF_vars(ScaffoldExit)

----------------------------------------------------------------------------
(* Properties: validation *)

\* the values of dateFrom that are not a date of the calendar
UnparsableDateFroms == {NotADate, Date_2024_02_30}

Answered400(message) ==
  /\ pc = "done"
  /\ calls = <<Response(400, message, 0, << >>)>>
  /\ outbound = << >>

\* C1: the query is checked in the order dateFrom missing, dateFrom not a
\* date, dateGrouping missing, dateGrouping not day or month; the first rule
\* that fails is answered with status 400 and its own message, and a query
\* that breaks no rule never gets a 400.
C1_ValidationOrder ==
  pc # "start" =>
    IF query.dateFrom = << >> THEN Answered400("dateFrom is required")
    ELSE IF query.dateFrom \in UnparsableDateFroms
         THEN Answered400("dateFrom is invalid")
    ELSE IF query.dateGrouping = "" THEN Answered400("dateGrouping is required")
    ELSE IF query.dateGrouping \notin {"day", "month"}
         THEN Answered400("dateGrouping must be day or month")
    ELSE \A i \in 1..Len(calls) : calls[i].status # 400

\* a query that breaks two rules is answered with the message of the first
C1_Witness ==
  /\ query.dateFrom = NotADate
  /\ query.dateGrouping = "week"
  /\ calls = <<Response(400, "dateFrom is invalid", 0, << >>)>>

----------------------------------------------------------------------------
(* Properties: the scaffold *)

RECURSIVE SplitDash(_)
\* the fields of a text between its "-" characters
SplitDash(s) ==
  IF s = << >> THEN << << >> >>
  ELSE LET rest == SplitDash(Tail(s))
       IN  IF Head(s) = "-" THEN << << >> >> \o rest
           ELSE << <<Head(s)>> \o Head(rest) >> \o Tail(rest)

\* the calendar date that a yyyy-MM-dd text names
CivilOfText(s) ==
  LET f == SplitDash(SelectSeq(s, LAMBDA c : c \notin WhiteSpace))
  IN  [y |-> NumVal(f[1]), m |-> NumVal(f[2]), d |-> NumVal(f[3])]

\* the calendar day after c
NextCivil(c) ==
  IF c.d < DaysInMonth(c.y, c.m) THEN [c EXCEPT !.d = @ + 1]
  ELSE IF c.m < 12 THEN [y |-> c.y, m |-> c.m + 1, d |-> 1]
  ELSE [y |-> c.y + 1, m |-> 1, d |-> 1]

\* the midnight that starts the day named by a text, in hours
MidnightOfText(s) ==
  LET c == CivilOfText(s) IN DaysFromCivil(c.y, c.m, c.d) * 24

\* a text of the form dddd-dd-dd
IsDateText(s) ==
  /\ Len(s) = 10
  /\ s[5] = "-" /\ s[8] = "-"
  /\ \A i \in {1, 2, 3, 4, 6, 7, 9, 10} : s[i] \in Digits

\* yyyymmdd as a number: the order of the date texts
DateKey(s) == LET c == CivilOfText(s) IN c.y * 10000 + c.m * 100 + c.d

ScaffoldExact ==
  pc = "awaitBucketUrl" =>
    LET hr == historicalResponse
        n  == Len(hr)
        t0 == MidnightOfText(query.dateFrom)
    IN  /\ (dateTo <= t0) = (n = 0)
        /\ n > 0 =>
             /\ CivilOfText(hr[1].date) = CivilOfText(query.dateFrom)
             /\ MidnightOfText(hr[n].date) < dateTo
             /\ dateTo <= MidnightOfText(hr[n].date) + 24
        /\ \A i \in 1..n :
             /\ IsDateText(hr[i].date)
             /\ hr[i].visits = Number(0)
             /\ hr[i].pageviews = Number(0)
        /\ \A i \in 1..(n - 1) :
             /\ CivilOfText(hr[i + 1].date) = NextCivil(CivilOfText(hr[i].date))
             /\ DateKey(hr[i].date) < DateKey(hr[i + 1].date)
        /\ \A i, j \in 1..n : i # j => hr[i].date # hr[j].date

\* C2: the scaffold loop ends, and the series it leaves has one bucket for
\* each calendar day whose midnight lies in [dateFrom, now): none when
\* dateFrom is not before now, otherwise the day of dateFrom first, each next
\* bucket the next day of the calendar, the last day the one that contains or
\* precedes now, all with zero visits and pageviews, whatever dateGrouping is.
C2_ScaffoldCoversEveryDay ==
  /\ []ScaffoldExact
  /\ (pc = "scaffold") ~> (pc = "awaitBucketUrl")

\* a month scaffold that crosses the end of the year
C2_Witness ==
  /\ pc = "awaitBucketUrl"
  /\ query = [dateFrom |-> Date_2023_12_30, dateGrouping |-> "month"]
  /\ Len(historicalResponse) >= 3
  /\ historicalResponse[2].date = Date_2023_12_31
  /\ historicalResponse[3].date = Date_2024_01_01

----------------------------------------------------------------------------
(* Properties: merge and write-back *)

RECURSIVE Flatten(_)
Flatten(seqs) ==
  IF seqs = << >> THEN << >> ELSE Head(seqs) \o Flatten(Tail(seqs))

\* every provider result that a fetch returned
FetchedResults == Flatten([i \in 1..Len(fetch) |-> fetch[i].result])

RECURSIVE SumVisits(_, _)
\* the sum of the parsed visits of the results of a date
SumVisits(results, date) ==
  IF results = << >> THEN Number(0)
  ELSE IF Head(results).date = date
       THEN Plus(parseInt(Head(results).visits), SumVisits(Tail(results), date))
  ELSE SumVisits(Tail(results), date)

RECURSIVE SumPageviews(_, _)
\* the sum of the parsed pageviews of the results of a date
SumPageviews(results, date) ==
  IF results = << >> THEN Number(0)
  ELSE IF Head(results).date = date
       THEN Plus(parseInt(Head(results).pageviews),
                 SumPageviews(Tail(results), date))
  ELSE SumPageviews(Tail(results), date)

NoResultFor(date) ==
  \A k \in 1..Len(FetchedResults) : FetchedResults[k].date # date

\* C3: in every 200 response each bucket carries the sum of the parsed
\* visits and the sum of the parsed pageviews of all the provider results of
\* its date over all the fetched paths, and a bucket whose date no path
\* returned carries 0 and 0.
C3_BucketsAreSums ==
  \A c \in 1..Len(calls) :
    calls[c].status = 200 =>
      \A b \in 1..Len(calls[c].body) :
        LET bucket == calls[c].body[b]
        IN  /\ bucket.visits = SumVisits(FetchedResults, bucket.date)
            /\ bucket.pageviews = SumPageviews(FetchedResults, bucket.date)
            /\ NoResultFor(bucket.date) =>
                 bucket.visits = Number(0) /\ bucket.pageviews = Number(0)

\* two paths returned (3,5) and (2,1) for 2024-01-01, no path returned
\* 2024-01-02, and the 200 response carries (5,6) and (0,0)
C3_Witness ==
  /\ pc = "done"
  /\ calls # << >>
  /\ calls[1].status = 200
  /\ \E i, j \in 1..Len(calls[1].body) :
       /\ calls[1].body[i] = Result(Date_2024_01_01, Number(5), Number(6))
       /\ calls[1].body[j].visits = Number(0)
       /\ NoResultFor(calls[1].body[j].date)

\* the dates that a path returned and that have no bucket in the series
UnmatchedDates ==
  {FetchedResults[k].date : k \in
     {k \in 1..Len(FetchedResults) :
        findIndex(historicalResponse, FetchedResults[k].date) = 0}}

HandlerEnded == pc \in {"done", "rejected"}

EveryFetchFulfilled ==
  fetch # << >> /\ \A i \in 1..Len(fetch) : fetch[i].state = "fulfilled"

\* C4: when a provider result carries a date that has no bucket, the request
\* ends with one 500 response that carries a correlation identifier, and no
\* 200 response with the series is sent.
C4_UnmatchedDateEndsIn500 ==
  (HandlerEnded /\ EveryFetchFulfilled /\ UnmatchedDates # {}) =>
    /\ Len(calls) >= 1
    /\ calls[1].status = 500
    /\ calls[1].errorId >= 1
    /\ \A c \in 1..Len(calls) : calls[c].status # 200

\* C5: when a fetch has failed, the request fails: nothing is merged,
\* no bucket is written and no response is sent by the handler, whatever
\* the other fetches did and whenever they completed.
C5_FetchFailureFailsRequest ==
  (\E i \in 1..Len(fetch) : fetch[i].state = "rejected") =>
    /\ pc = "rejected"
    /\ datesValues = << >>
    /\ calls = << >>
    /\ \A b \in 1..Len(historicalResponse) :
         /\ historicalResponse[b].visits = Number(0)
         /\ historicalResponse[b].pageviews = Number(0)

\* one fetch failed, the others were fulfilled with data before and after it
C5_Witness ==
  /\ Len(fetch) = 3
  /\ fetch[2].state = "rejected"
  /\ fetch[1].state = "fulfilled" /\ fetch[1].result # << >>
  /\ fetch[3].state = "fulfilled" /\ fetch[3].result # << >>
  /\ historicalResponse # << >>

FetchesIssued == fetch # << >>

AggregatePathCalls == SelectSeq(outbound, LAMBDA o : o.op = "aggregatePath")

\* C6 as claimed: once the handler has resumed after the fetches (to merge,
\* to respond or to fail), no issued fetch is still outstanding.
C6_NoFetchOutstandingAfterResume ==
  (FetchesIssued /\ HandlerEnded) =>
    \A i \in 1..Len(fetch) : fetch[i].state # "pending"

\* C6 amended: every fetch is issued in the step in which the handler starts
\* to wait; the handler merges and responds only when every issued fetch has
\* been fulfilled; it resumes while a fetch is outstanding only to fail,
\* and only after a fetch has been rejected.
C6_JoinBeforeMerge ==
  /\ pc \in {"start", "scaffold", "awaitBucketUrl", "awaitStories"} =>
       fetch = << >> /\ AggregatePathCalls = << >>
  /\ (pc = "awaitFetch" \/ FetchesIssued) =>
       /\ Len(fetch) = Len(storiesPath)
       /\ Len(AggregatePathCalls) = Len(storiesPath)
  /\ (FetchesIssued /\ (pc = "done" \/ calls # << >> \/ datesValues # << >>)) =>
       \A i \in 1..Len(fetch) : fetch[i].state = "fulfilled"
  /\ (FetchesIssued /\ HandlerEnded
        /\ \E i \in 1..Len(fetch) : fetch[i].state = "pending") =>
       /\ pc = "rejected"
       /\ \E i \in 1..Len(fetch) : fetch[i].state = "rejected"
  /\ (FetchesIssued /\ pc = "awaitFetch") =>
       /\ \E i \in 1..Len(fetch) : fetch[i].state = "pending"
       /\ \A i \in 1..Len(fetch) : fetch[i].state # "rejected"

\* the handler has answered 200 after three fetches were fulfilled
C6_Witness ==
  /\ pc = "done"
  /\ Len(fetch) = 3
  /\ datesValues # << >>
  /\ calls # << >> /\ calls[1].status = 200

\* getBucketUrl has returned: it was called, the handler is past its await,
\* and the handler did not reject at that await
BucketUrlReturned ==
  /\ outbound # << >>
  /\ pc # "awaitBucketUrl"
  /\ ~(pc = "rejected" /\ Len(outbound) = 1)

\* C7: when getBucketUrl returns no profile or no bucket url, the handler
\* answers 500 with the identifier of the reported message, and it calls
\* neither getPublicStories nor aggregatePath.
C7_NoProfileIs500 ==
  (BucketUrlReturned /\ (~profile \/ ~bucketUrl)) =>
    /\ pc = "done"
    /\ captured = <<[kind |-> "NoProfile", date |-> << >>]>>
    /\ calls = <<Response(500, "Internal server error", 1, << >>)>>
    /\ \A k \in 1..Len(outbound) : outbound[k].op = "getBucketUrl"
    /\ fetch = << >>
    /\ storiesPath = << >>

\* a profile without a bucket url
C7_Witness ==
  /\ pc = "done"
  /\ profile /\ ~bucketUrl
  /\ calls # << >> /\ calls[1].status = 500 /\ calls[1].errorId = 1

DatesOf(series) == [i \in 1..Len(series) |-> series[i].date]

\* C8: after the scaffold loop no step changes the sequence of bucket dates,
\* and every 200 response carries exactly that sequence: the write-back
\* changes visits and pageviews only.
C8_WriteBackKeepsDates ==
  [][pc \notin {"start", "scaffold"} =>
       /\ DatesOf(historicalResponse') = DatesOf(historicalResponse)
       /\ \A c \in (Len(calls) + 1)..Len(calls') :
            calls'[c].status = 200 =>
              DatesOf(calls'[c].body) = DatesOf(historicalResponse)]_vars

\* a 200 response of three buckets, one of them written
C8_Witness ==
  /\ calls # << >>
  /\ calls[1].status = 200
  /\ Len(calls[1].body) = 3
  /\ calls[1].body[2].visits.v > 0
  /\ DatesOf(calls[1].body) = <<Date_2023_12_31, Date_2024_01_01,
                                <<"2", "0", "2", "4", "-", "0", "1", "-", "0", "2">> >>

\* C9: the handler sends at most one response for a request.
C9_AtMostOneResponse == Len(calls) <= 1

----------------------------------------------------------------------------
(* Properties: independence of the order of the paths and of the fetches *)

\* the paths of a user: one for each published story and the root
PathsOf(stories) ==
  {<<username, stories[i]>> : i \in 1..Len(stories)} \cup {<<username>>}

\* what the provider returned for a path
ReplyOf(path) ==
  fetch[CHOOSE i \in 1..Len(storiesPath) : storiesPath[i] = path].result

RECURSIVE TotalVisits(_, _)
\* the visits of a date summed over a set of paths
TotalVisits(paths, date) ==
  IF paths = {} THEN Number(0)
  ELSE LET p == CHOOSE q \in paths : TRUE
       IN  Plus(SumVisits(ReplyOf(p), date), TotalVisits(paths \ {p}, date))

RECURSIVE TotalPageviews(_, _)
\* the pageviews of a date summed over a set of paths
TotalPageviews(paths, date) ==
  IF paths = {} THEN Number(0)
  ELSE LET p == CHOOSE q \in paths : TRUE
       IN  Plus(SumPageviews(ReplyOf(p), date),
                TotalPageviews(paths \ {p}, date))

\* the series that the set of replies determines
SeriesOfReplies ==
  [b \in 1..Len(historicalResponse) |->
     Result(historicalResponse[b].date,
            TotalVisits(PathsOf(publicStoriesFile), historicalResponse[b].date),
            TotalPageviews(PathsOf(publicStoriesFile), historicalResponse[b].date))]

\* every date that a path returned has a bucket, or is a name that line 106
\* finds inherited and for which datesValues gets no key
NoKeyWithoutBucket ==
  \A k \in 1..Len(FetchedResults) :
    \/ FetchedResults[k].date \in ObjectPrototypeMembers
    \/ \E b \in 1..Len(historicalResponse) :
         historicalResponse[b].date = FetchedResults[k].date

\* C10: one fetch is issued for each published story and one for the root
\* path; when all of them are fulfilled, the first answer and the series of
\* every 200 response are determined by the set of replies alone, whatever
\* the order of the stories and the order in which the fetches completed.
C10_OrderIndependent ==
  (FetchesIssued /\ pc # "awaitFetch"
     /\ \A i \in 1..Len(fetch) : fetch[i].state = "fulfilled") =>
    /\ Len(AggregatePathCalls) = Len(publicStoriesFile) + 1
    /\ {AggregatePathCalls[k].path : k \in 1..Len(AggregatePathCalls)}
         = PathsOf(publicStoriesFile)
    /\ calls # << >>
    /\ calls[1] = IF NoKeyWithoutBucket
                  THEN Response(200, "", 0, SeriesOfReplies)
                  ELSE Response(500, "Internal server error", 1, << >>)
    /\ \A c \in 1..Len(calls) :
         calls[c].status = 200 => calls[c].body = SeriesOfReplies

\* the stories were listed as story2, story1; the three paths returned
\* different data and the response is 200
C10_Witness ==
  /\ pc = "done"
  /\ publicStoriesFile = <<"story2", "story1">>
  /\ \A i \in 1..Len(fetch) : fetch[i].state = "fulfilled"
  /\ Len(fetch) = 3
  /\ fetch[1].result # fetch[2].result
  /\ fetch[1].result # << >> /\ fetch[2].result # << >> /\ fetch[3].result # << >>
  /\ calls # << >> /\ calls[1].status = 200

====
